---- MODULE Spec2Model ----
(***************************************************************************)
(* Model of src/index.js: the WhatsApp OTP service.                        *)
(*                                                                         *)
(* Program state: the otpStorage Map, the three connection globals         *)
(* (whatsappClient, whatsappConnected, currentQR), the timers the handlers *)
(* arm, and the requests whose handling is suspended (the awaited          *)
(* sendMessage of send-otp, the poll/timeout pair of connect).  Node runs  *)
(* every callback to completion, so each action below is one callback.     *)
(*                                                                         *)
(* Time is the value of Date.now(), counted in model ticks.  The transport *)
(* (whatsapp-web.js Client) is the environment: every Client object that   *)
(* initializeWhatsApp constructed keeps its four listeners for as long as  *)
(* it lives, and index.js never destroys a Client nor removes a listener,  *)
(* so a Client that the handlers have dropped can still emit.              *)
(* otpId is otp_<Date.now()>_<9 random base-36 chars>; ids are taken to be *)
(* distinct (no collision of the random suffix).                           *)
(***************************************************************************)
EXTENDS Integers, Sequences, FiniteSets, Bags, TLC

\* ------------------------------------------------------------------ bounds
MaxTime == 4          \* Date.now() runs over 1..MaxTime
MaxOtps == 2          \* send-otp requests that reach id generation
MaxSessions == 2      \* Client objects constructed by initializeWhatsApp
MaxInflight == 2      \* verify-otp requests received and not yet handled
MaxConnReqs == 2      \* connect requests whose timers are still armed

\* ------------------------------------------------- program constants
OtpTtl == 2           \* 5 * 60 * 1000 ms, in ticks

LocalDigits == 10     \* formatted.length === 10 (line 27)

Null == 0             \* JavaScript null / undefined / absent body field

\* Strings are sequences of characters.  An absent body field and the empty
\* string are both falsy at lines 145, 210 and 219.
Missing == <<>>

\* Two of the six-digit codes generateOTP can draw.
Code1 == <<"1", "2", "3", "4", "5", "6">>
Code2 == <<"6", "5", "4", "3", "2", "1">>
Codes == {Code1, Code2}

\* ------------------------------------------------------- phone numbers
\* A phone number is the string of the request body, as the sequence of its
\* characters.
Str10 == <<"9", "8", "7", "6", "5", "4", "3", "2", "1", "0">>

\* The phone numbers of the requests: two spellings of one number.
Phones == {Str10, <<"+", "9", "1", " ">> \o Str10}

\* \d of the regular expression of line 25.
IsDigit(c) == c \in {"0", "1", "2", "3", "4", "5", "6", "7", "8", "9"}

\* The literals of lines 27, 28 and 30.
CountryCode == <<"9", "1">>
Suffix == <<"@", "c", ".", "u", "s">>

\* String.prototype.startsWith.
StartsWith(str, prefix) ==
    /\ Len(str) >= Len(prefix)
    /\ SubSeq(str, 1, Len(prefix)) = prefix

\* formatPhoneNumber (lines 24-31).
formatPhoneNumber(phoneNumber) ==
    LET formatted == SelectSeq(phoneNumber, IsDigit)
    IN (IF ~StartsWith(formatted, CountryCode) /\ Len(formatted) = LocalDigits
        THEN CountryCode \o formatted
        ELSE formatted) \o Suffix

VARIABLES
    now,               \* Date.now()
    otpStorage,        \* the Map, as the sequence of its entries in insertion order
    timers,            \* armed deferred deletions: set of [id, due]
    nextOtp,           \* number of otpIds generated so far
    pendingSends,      \* send-otp handlers suspended at await sendMessage
    pendingVerify,     \* verify-otp requests received, handler not yet run (a bag)
    whatsappClient,    \* Null or the Client object (its number)
    whatsappConnected,
    currentQR,         \* Null or the qr string (the number of the Client that issued it)
    clients,           \* transport side of every constructed Client
    connReqs,          \* connect requests with a timer armed: [polling, answered] counts
    last,              \* the response most recently sent, with what the handler saw
    issued,            \* otpId -> the record as stored by send-otp (history)
    okCount,           \* otpId -> number of successful verifications (history)
    nDelivered         \* sendMessage promises that resolved (history)

vars == <<now, otpStorage, timers, nextOtp, pendingSends, pendingVerify,
          whatsappClient, whatsappConnected, currentQR, clients, connReqs,
          last, issued, okCount, nDelivered>>

otpVars == <<otpStorage, timers, nextOtp, pendingSends, pendingVerify,
             issued, okCount, nDelivered>>
connVars == <<whatsappClient, whatsappConnected, currentQR, clients, connReqs>>

OtpIds == 1..MaxOtps
SessionIds == 1..MaxSessions

NoResponse == [op |-> "none"]
NotIssued == [id |-> Null]

Init ==
    /\ now = 1
    /\ otpStorage = <<>>
    /\ timers = {}
    /\ nextOtp = 0
    /\ pendingSends = {}
    /\ pendingVerify = EmptyBag
    /\ whatsappClient = Null
    /\ whatsappConnected = FALSE
    /\ currentQR = Null
    /\ clients = [s \in SessionIds |-> "unborn"]
    /\ connReqs = [polling |-> 0, answered |-> 0]
    /\ last = NoResponse
    /\ issued = [i \in OtpIds |-> NotIssued]
    /\ okCount = [i \in OtpIds |-> 0]
    /\ nDelivered = 0

\* ------------------------------------------------------------------ clock
Tick ==
    /\ now < MaxTime
    /\ now' = now + 1
    /\ last' = NoResponse
    /\ UNCHANGED <<otpVars, connVars>>

\* ------------------------------------------------ connection manager
\* The connection state as the program represents it in its three globals.
ConnState ==
    IF whatsappConnected THEN "Ready"
    ELSE IF whatsappClient = Null THEN "Idle"
    ELSE IF currentQR # Null THEN "AwaitingPairing"
    ELSE "Initializing"

\* Client objects constructed so far.
Born == {s \in SessionIds : clients[s] # "unborn"}

\* Mutant: connect constructs a Client whether or not one is held.
NeedsBootstrap_Always(client) == TRUE

\* The guard of line 91: a new Client is constructed only when none is held.
NeedsBootstrap(client) == client = Null

\* initializeWhatsApp: construct a Client, register the listeners, initialize().
initializeWhatsApp ==
    /\ Born # SessionIds
    /\ LET s == CHOOSE x \in SessionIds \ Born : \A y \in SessionIds \ Born : x <= y
       IN /\ whatsappClient' = s
          /\ clients' = [clients EXCEPT ![s] = "init"]

\* What a connect response records: the state the handler found.
ConnResponse(result, responses) ==
    [op |-> "connect", result |-> result, before |-> ConnState, born |-> Cardinality(Born),
     responses |-> responses]

\* POST /api/whatsapp/connect, the synchronous part of the handler (lines 82-119):
\* answer at once when connected, else bootstrap if needed and arm both timers.
Connect ==
    \/ /\ whatsappConnected
       /\ last' = ConnResponse("AlreadyConnected", 1)
       /\ UNCHANGED <<now, otpVars, connVars>>
    \/ /\ ~whatsappConnected
       /\ connReqs.polling + connReqs.answered < MaxConnReqs
       /\ IF NeedsBootstrap(whatsappClient)
          THEN initializeWhatsApp
          ELSE UNCHANGED <<whatsappClient, clients>>
       /\ connReqs' = [connReqs EXCEPT !.polling = @ + 1]
       /\ last' = ConnResponse("Waiting", 0)
       /\ UNCHANGED <<now, otpVars, whatsappConnected, currentQR>>

\* One run of the setInterval callback of one connect request (lines 96-111).
PollTick ==
    /\ connReqs.polling > 0
    /\ IF currentQR # Null
       THEN /\ connReqs' = [polling |-> connReqs.polling - 1, answered |-> connReqs.answered + 1]
            /\ last' = ConnResponse("QrCode", 1)
       ELSE IF whatsappConnected
       THEN /\ connReqs' = [polling |-> connReqs.polling - 1, answered |-> connReqs.answered + 1]
            /\ last' = ConnResponse("Connected", 1)
       ELSE /\ UNCHANGED connReqs
            /\ last' = NoResponse
    /\ UNCHANGED <<now, otpVars, whatsappClient, whatsappConnected, currentQR, clients>>

\* The setTimeout callback (lines 114-119) of a request the poll has not
\* answered: it stops the poll, and responds only if it finds neither a qr
\* nor a connection.  Otherwise the request is left with no response and
\* with no timer that could send one.
ConnectTimeout ==
    /\ connReqs.polling > 0
    /\ connReqs' = [connReqs EXCEPT !.polling = @ - 1]
    /\ IF ~whatsappConnected /\ currentQR = Null
       THEN last' = ConnResponse("Timeout", 1)
       ELSE last' = ConnResponse("Unanswered", 0)
    /\ UNCHANGED <<now, otpVars, whatsappClient, whatsappConnected, currentQR, clients>>

\* The setTimeout callback (lines 114-119) of a request the poll has answered.
ConnectTimeoutAnswered ==
    /\ connReqs.answered > 0
    /\ connReqs' = [connReqs EXCEPT !.answered = @ - 1]
    /\ IF ~whatsappConnected /\ currentQR = Null
       THEN last' = ConnResponse("Timeout", 2)
       ELSE last' = NoResponse
    /\ UNCHANGED <<now, otpVars, whatsappClient, whatsappConnected, currentQR, clients>>

\* ---- transport events; s is the Client object that emits.  A Client emits
\* per the transport's protocol: qr while unauthorized, then ready or
\* auth_failure; disconnected at any time.
CanEmit(s, event) ==
    CASE event = "qr" -> clients[s] \in {"init", "pairing"}
      [] event = "ready" -> clients[s] \in {"init", "pairing"}
      [] event = "auth_failure" -> clients[s] \in {"init", "pairing"}
      [] event = "disconnected" -> clients[s] \in {"init", "pairing", "ready"}

\* What the transport does with a Client after it reported a failure: it may
\* close it, or keep it running and start over.  index.js drops its reference
\* (lines 62, 70) and neither destroys the Client nor removes its listeners.
AfterFailure == {"closed", "init"}

\* qr (lines 44-48).
OnQr(s) ==
    /\ CanEmit(s, "qr")
    /\ clients' = [clients EXCEPT ![s] = "pairing"]
    /\ currentQR' = s
    /\ last' = NoResponse
    /\ UNCHANGED <<now, otpVars, whatsappClient, whatsappConnected, connReqs>>

\* ready (lines 51-57).
OnReady(s) ==
    /\ CanEmit(s, "ready")
    /\ clients' = [clients EXCEPT ![s] = "ready"]
    /\ whatsappConnected' = TRUE
    /\ currentQR' = Null
    /\ last' = NoResponse
    /\ UNCHANGED <<now, otpVars, whatsappClient, connReqs>>

\* auth_failure (lines 60-65).
OnAuthFailure(s) ==
    /\ CanEmit(s, "auth_failure")
    /\ \E st \in AfterFailure : clients' = [clients EXCEPT ![s] = st]
    /\ whatsappClient' = Null
    /\ whatsappConnected' = FALSE
    /\ currentQR' = Null
    /\ last' = NoResponse
    /\ UNCHANGED <<now, otpVars, connReqs>>

\* disconnected (lines 68-73).
OnDisconnected(s) ==
    /\ CanEmit(s, "disconnected")
    /\ \E st \in AfterFailure : clients' = [clients EXCEPT ![s] = st]
    /\ whatsappClient' = Null
    /\ whatsappConnected' = FALSE
    /\ currentQR' = Null
    /\ last' = NoResponse
    /\ UNCHANGED <<now, otpVars, connReqs>>

\* ------------------------------------------------------------- OTP store
\* Mutant: the guard tests the Client object only.
SendGuardPasses_ClientOnly(client, connected) == client # Null

\* The guard of line 150, negated: send-otp goes on to deliver.
SendGuardPasses(client, connected) == client # Null /\ connected

\* otpStorage.get(id): the position of the entry, 0 when there is none.
IndexOfId(store, id) ==
    IF \E k \in 1..Len(store) : store[k].id = id
    THEN CHOOSE k \in 1..Len(store) : store[k].id = id
    ELSE 0

\* otpStorage.delete(id).
MapDelete(store, id) == SelectSeq(store, LAMBDA r : r.id # id)

\* Mutant: the scan does not skip verified entries.
ScanAccepts_KeepsVerified(record, phoneNumber, latestTime) ==
    /\ record.phoneNumber = phoneNumber
    /\ record.createdAt > latestTime

\* The test of lines 225-227 on one entry of the scan.
ScanAccepts(record, phoneNumber, latestTime) ==
    /\ record.phoneNumber = phoneNumber
    /\ record.createdAt > latestTime
    /\ ~record.verified

\* The loop of lines 221-232, from entry k on; the result is the position of
\* otpRecord (0 for null).
RECURSIVE ScanFrom(_, _, _, _, _)
ScanFrom(store, phoneNumber, k, latestTime, otpRecord) ==
    IF k > Len(store) THEN otpRecord
    ELSE IF ScanAccepts(store[k], phoneNumber, latestTime)
         THEN ScanFrom(store, phoneNumber, k + 1, store[k].createdAt, k)
         ELSE ScanFrom(store, phoneNumber, k + 1, latestTime, otpRecord)

\* Lines 214-233: which entry the request resolves to (0 for null).
Resolve(store, req) ==
    IF req.otpId # Null THEN IndexOfId(store, req.otpId)
    ELSE IF req.phoneNumber # Missing THEN ScanFrom(store, req.phoneNumber, 1, 0, 0)
    ELSE 0

\* Mutant: the expiry test is late by one tick.
IsExpired_OffByOne(record, t) == record.expiresAt + 1 < t

\* The expiry test of line 240.
IsExpired(record, t) == record.expiresAt < t

\* Mutant: the already-verified test comes before the expiry test.
VerifyOutcome_ConsumedFirst(store, k, otp, t) ==
    IF otp = Missing THEN "MissingCode"
    ELSE IF k = 0 THEN "NotFound"
    ELSE IF store[k].verified THEN "AlreadyConsumed"
    ELSE IF IsExpired(store[k], t) THEN "Expired"
    ELSE IF store[k].otp # otp THEN "CodeMismatch"
    ELSE "Verified"

\* Mutant: the already-verified test is missing.
VerifyOutcome_NoConsumedTest(store, k, otp, t) ==
    IF otp = Missing THEN "MissingCode"
    ELSE IF k = 0 THEN "NotFound"
    ELSE IF IsExpired(store[k], t) THEN "Expired"
    ELSE IF store[k].otp # otp THEN "CodeMismatch"
    ELSE "Verified"

\* Lines 210-252: the response of verify-otp; k is the resolved entry.
VerifyOutcome(store, k, otp, t) ==
    IF otp = Missing THEN "MissingCode"
    ELSE IF k = 0 THEN "NotFound"
    ELSE IF IsExpired(store[k], t) THEN "Expired"
    ELSE IF store[k].verified THEN "AlreadyConsumed"
    ELSE IF store[k].otp # otp THEN "CodeMismatch"
    ELSE "Verified"

\* Request bodies of verify-otp.  A body that carries both otpId and
\* phoneNumber is handled exactly as the one without phoneNumber (line 216).
VerifyRequests ==
    {r \in [otpId : {Null} \cup OtpIds, otp : Codes \cup {Missing}, phoneNumber : Phones \cup {Missing}] :
        r.otpId # Null => r.phoneNumber = Missing}

\* What a send-otp response records: the connection state when the request came.
SendResponse(result, id, before) ==
    [op |-> "send", result |-> result, id |-> id, before |-> before]

\* POST /api/send-otp up to the await of line 170; to is the address handed
\* to sendMessage.  The message text goes to the transport only and is not
\* part of the state.
SendOtp(phoneNumber) ==
    /\ IF phoneNumber = Missing
       THEN /\ last' = SendResponse("MissingPhone", Null, ConnState)
            /\ UNCHANGED <<nextOtp, pendingSends>>
       ELSE IF ~SendGuardPasses(whatsappClient, whatsappConnected)
       THEN /\ last' = SendResponse("NotConnected", Null, ConnState)
            /\ UNCHANGED <<nextOtp, pendingSends>>
       ELSE /\ nextOtp < MaxOtps
            /\ nextOtp' = nextOtp + 1
            /\ \E otp \in Codes :
                 pendingSends' = pendingSends \cup
                    {[id |-> nextOtp + 1, phoneNumber |-> phoneNumber, otp |-> otp,
                      to |-> formatPhoneNumber(phoneNumber), before |-> ConnState]}
            /\ last' = SendResponse("Delivering", nextOtp + 1, ConnState)
    /\ UNCHANGED <<now, connVars, otpStorage, timers, pendingVerify, issued, okCount, nDelivered>>

\* The record of lines 174-180.
NewRecord(p, t) ==
    [id |-> p.id, phoneNumber |-> p.phoneNumber, otp |-> p.otp, expiresAt |-> t + OtpTtl,
     verified |-> FALSE, createdAt |-> t, verifiedAt |-> Null]

\* The store after the try block of lines 168-192 completed.
StoreAfterDelivery(store, p, t) == Append(store, NewRecord(p, t))

\* Mutant: the record is stored although sendMessage rejected.
StoreAfterFailure_Stores(store, p, t) == Append(store, NewRecord(p, t))

\* The store after the catch block of lines 194-197.
StoreAfterFailure(store, p, t) == store

\* sendMessage resolved: lines 172-192.
DeliverOk(p) ==
    /\ p \in pendingSends
    /\ now + OtpTtl <= MaxTime
    /\ pendingSends' = pendingSends \ {p}
    /\ otpStorage' = StoreAfterDelivery(otpStorage, p, now)
    /\ timers' = timers \cup {[id |-> p.id, due |-> now + OtpTtl]}
    /\ issued' = [issued EXCEPT ![p.id] = NewRecord(p, now)]
    /\ nDelivered' = nDelivered + 1
    /\ last' = SendResponse("Sent", p.id, p.before)
    /\ UNCHANGED <<now, connVars, nextOtp, pendingVerify, okCount>>

\* sendMessage rejected: lines 194-197.
DeliverFail(p) ==
    /\ p \in pendingSends
    /\ pendingSends' = pendingSends \ {p}
    /\ otpStorage' = StoreAfterFailure(otpStorage, p, now)
    /\ last' = SendResponse("DeliveryFailed", p.id, p.before)
    /\ UNCHANGED <<now, connVars, timers, nextOtp, pendingVerify, issued, okCount, nDelivered>>

\* Mutant: verifiedAt is set and the verified flag is not.
MarkVerified_NoFlag(store, k, t) ==
    [store EXCEPT ![k] = [@ EXCEPT !.verifiedAt = t]]

\* Mutant: the verified flag is set and verifiedAt is not.
MarkVerified_NoTime(store, k, t) ==
    [store EXCEPT ![k] = [@ EXCEPT !.verified = TRUE]]

\* Lines 254-256 on entry k.
MarkVerified(store, k, t) ==
    [store EXCEPT ![k] = [@ EXCEPT !.verified = TRUE, !.verifiedAt = t]]

\* Mutant: a rejected request deletes the record it resolved to.
StoreAfterReject_Deletes(store, k) ==
    IF k = 0 THEN store ELSE MapDelete(store, store[k].id)

\* The store after one of the early returns of lines 210-252: every one of
\* them precedes the writes of lines 255-256.
StoreAfterReject(store, k) == store

\* The verify-otp handler (lines 206-269), which never suspends: its effect on
\* the store and its response.  The response records the request, the entry
\* it resolved to and the store the handler found; raced tells that the
\* request was queued when another request consumed the record it names.
VerifyHandler(req, raced) ==
    LET k == Resolve(otpStorage, req)
        result == VerifyOutcome(otpStorage, k, req.otp, now)
    IN /\ IF result = "Verified"
          THEN /\ otpStorage' = MarkVerified(otpStorage, k, now)
               /\ okCount' = [okCount EXCEPT ![otpStorage[k].id] = IF @ < 2 THEN @ + 1 ELSE @]
          ELSE /\ otpStorage' = StoreAfterReject(otpStorage, k)
               /\ UNCHANGED okCount
       /\ last' = [op |-> "verify", req |-> req, result |-> result,
                   rec |-> IF k = 0 THEN Null ELSE otpStorage[k].id,
                   store |-> otpStorage, raced |-> raced]
       /\ UNCHANGED <<now, connVars, timers, nextOtp, pendingSends, issued, nDelivered>>

\* POST /api/verify-otp received and handled with no other callback in between.
Verify(req) ==
    /\ VerifyHandler(req, FALSE)
    /\ UNCHANGED pendingVerify

\* A verify-otp request reaches the server while other callbacks are queued.
VerifyArrive(req) ==
    /\ BagCardinality(pendingVerify) < MaxInflight
    /\ pendingVerify' = pendingVerify (+) SetToBag({[req |-> req, raced |-> FALSE]})
    /\ last' = NoResponse
    /\ UNCHANGED <<now, connVars, otpStorage, timers, nextOtp, pendingSends, issued, okCount, nDelivered>>

\* The queued requests b, those that name record id marked as raced.
MarkRaced(b, id) ==
    LET M(x) == IF x.req.otpId = id THEN [x EXCEPT !.raced = TRUE] ELSE x
        T == {M(x) : x \in BagToSet(b)}
    IN [y \in T |-> IF y.req.otpId = id
                    THEN CopiesIn([y EXCEPT !.raced = FALSE], b) + CopiesIn(y, b)
                    ELSE CopiesIn(y, b)]

\* The handler runs for one of the queued requests.
HandleVerify(e) ==
    /\ BagIn(e, pendingVerify)
    /\ VerifyHandler(e.req, e.raced)
    /\ LET rest == pendingVerify (-) SetToBag({e})
           won == VerifyOutcome(otpStorage, Resolve(otpStorage, e.req), e.req.otp, now) = "Verified"
       IN pendingVerify' = IF won /\ e.req.otpId # Null THEN MarkRaced(rest, e.req.otpId) ELSE rest

\* The setTimeout callback of lines 183-185 for one record.
TimerFire(t) ==
    /\ t \in timers
    /\ now >= t.due
    /\ timers' = timers \ {t}
    /\ otpStorage' = MapDelete(otpStorage, t.id)
    /\ last' = NoResponse
    /\ UNCHANGED <<now, connVars, nextOtp, pendingSends, pendingVerify, issued, okCount, nDelivered>>

\* Mutant: the cleanup also deletes the entries that expire at this instant.
SweepKeeps_Inclusive(record, t) == ~(record.expiresAt <= t)

\* Which entries the periodic cleanup keeps (line 296).
SweepKeeps(record, t) == ~(record.expiresAt < t)

\* The setInterval callback of lines 293-300.
Sweep ==
    /\ otpStorage' = SelectSeq(otpStorage, LAMBDA r : SweepKeeps(r, now))
    /\ last' = NoResponse
    /\ UNCHANGED <<now, connVars, timers, nextOtp, pendingSends, pendingVerify, issued, okCount,
                   nDelivered>>

\* ------------------------------------------------------- specifications
\* The whole program.
Next ==
    \/ Tick
    \/ Connect
    \/ PollTick
    \/ ConnectTimeout
    \/ ConnectTimeoutAnswered
    \/ \E s \in SessionIds : OnQr(s)
    \/ \E s \in SessionIds : OnReady(s)
    \/ \E s \in SessionIds : OnDisconnected(s)
    \/ \E s \in SessionIds : OnAuthFailure(s)
    \/ \E ph \in Phones \cup {Missing} : SendOtp(ph)
    \/ \E p \in pendingSends : DeliverOk(p)
    \/ \E p \in pendingSends : DeliverFail(p)
    \/ \E req \in VerifyRequests : Verify(req)
    \/ \E req \in VerifyRequests : VerifyArrive(req)
    \/ \E e \in BagToSet(pendingVerify) : HandleVerify(e)
    \/ \E t \in timers : TimerFire(t)
    \/ Sweep

Spec == Init /\ [][Next]_vars

\* The connection manager alone.  No OTP handler writes a connection global
\* (send-otp only reads two of them), so the OTP requests are left out.
NextConn ==
    \/ Connect
    \/ PollTick
    \/ ConnectTimeout
    \/ ConnectTimeoutAnswered
    \/ \E s \in SessionIds : OnQr(s)
    \/ \E s \in SessionIds : OnReady(s)
    \/ \E s \in SessionIds : OnDisconnected(s)
    \/ \E s \in SessionIds : OnAuthFailure(s)

SpecConn == Init /\ [][NextConn]_vars

\* send-otp against every behaviour of the connection manager.
NextSend ==
    \/ NextConn
    \/ \E ph \in Phones \cup {Missing} : SendOtp(ph)
    \/ \E p \in pendingSends : DeliverOk(p)
    \/ \E p \in pendingSends : DeliverFail(p)

SpecSend == Init /\ [][NextSend]_vars

\* The OTP store over time.  The store is written by send-otp, verify-otp,
\* the deferred deletions and the sweep only, and the connection reaches it
\* through the guard of send-otp only, so the transport events are cut down
\* to the ones that open that guard.
NextStore ==
    \/ Tick
    \/ Connect
    \/ \E s \in SessionIds : OnReady(s)
    \/ \E ph \in Phones \cup {Missing} : SendOtp(ph)
    \/ \E p \in pendingSends : DeliverOk(p)
    \/ \E p \in pendingSends : DeliverFail(p)
    \/ \E req \in VerifyRequests : Verify(req)
    \/ \E t \in timers : TimerFire(t)
    \/ Sweep

SpecStore == Init /\ [][NextStore]_vars

\* Verification requests that name a record by id and carry the code Code1,
\* which is the code of a record or not as send-otp drew it.
RaceRequests == {r \in VerifyRequests : r.otpId # Null /\ r.otp = Code1}

\* The OTP store with verify-otp requests queued while other callbacks run.
NextRace ==
    \/ Tick
    \/ Connect
    \/ \E s \in SessionIds : OnReady(s)
    \/ SendOtp(Str10)
    \/ \E p \in pendingSends : DeliverOk(p)
    \/ \E req \in RaceRequests : VerifyArrive(req)
    \/ \E e \in BagToSet(pendingVerify) : HandleVerify(e)
    \/ \E t \in timers : TimerFire(t)
    \/ Sweep

SpecRace == Init /\ [][NextRace]_vars

\* Phone numbers as callers write them: a digit string, with or without
\* leading digits in front of a national number, punctuated or not.
FormatDigits ==
    {pre \o SubSeq(Str10, 1, k) :
        pre \in {<<>>, <<"9">>, <<"0">>, <<"9", "1">>, <<"1", "9">>}, k \in 7..LocalDigits}
FormatInputs ==
    {lead \o SubSeq(d, 1, 3) \o sep \o SubSeq(d, 4, Len(d)) :
        lead \in {<<>>, <<"+">>}, sep \in {<<>>, <<")", " ">>}, d \in FormatDigits}

\* send-otp with the phone numbers of FormatInputs, up to the address that
\* sendMessage receives.
NextFormat ==
    \/ Connect
    \/ \E s \in SessionIds : OnReady(s)
    \/ \E ph \in FormatInputs : SendOtp(ph)
    \/ \E p \in pendingSends : DeliverFail(p)

SpecFormat == Init /\ [][NextFormat]_vars

\* ================================================================ claims
\* The entry of store with the given id.
Entry(store, id) == store[IndexOfId(store, id)]
InStore(store, id) == \E k \in 1..Len(store) : store[k].id = id

\* The last response answers a verify-otp request that names an issued
\* record by otpId and carries a code.
VerifyById ==
    /\ last.op = "verify"
    /\ last.req.otpId # Null
    /\ last.req.otp # Missing
    /\ issued[last.req.otpId].id # Null

\* Successful verifications of record i before the request just answered.
PriorOk(i) ==
    okCount[i] - (IF last.op = "verify" /\ last.result = "Verified" /\ last.rec = i THEN 1 ELSE 0)

\* C1 (as amended): a verify-otp request with the correct code, made before
\* expiresAt and before any successful verification, succeeds; at most one
\* request ever succeeds for a record; a later request with the same otpId
\* made before expiresAt returns AlreadyConsumed, and from expiresAt on a
\* later request never succeeds (it returns AlreadyConsumed, Expired or
\* NotFound).
C1_SingleUseBeforeExpiry ==
    /\ \A i \in OtpIds : okCount[i] <= 1
    /\ VerifyById =>
         LET i == last.req.otpId
         IN /\ (now < issued[i].expiresAt /\ last.req.otp = issued[i].otp /\ PriorOk(i) = 0)
                  => last.result = "Verified"
            /\ (now < issued[i].expiresAt /\ PriorOk(i) > 0) => last.result = "AlreadyConsumed"
            /\ PriorOk(i) > 0 => last.result \in {"AlreadyConsumed", "Expired", "NotFound"}

\* C1 as stated: every request that follows a successful verification of the
\* same otpId returns AlreadyConsumed.
C1_EveryLaterRequestAlreadyConsumed ==
    VerifyById => (PriorOk(last.req.otpId) > 0 => last.result = "AlreadyConsumed")

\* A second request with the correct code before expiry gets AlreadyConsumed.
C1_Witness ==
    /\ VerifyById
    /\ now < issued[last.req.otpId].expiresAt
    /\ last.req.otp = issued[last.req.otpId].otp
    /\ PriorOk(last.req.otpId) = 1
    /\ last.result = "AlreadyConsumed"

\* The response the order existence, expiry, already-consumed, mismatch
\* prescribes for the request just answered, from the store the handler found.
C2_Expected ==
    LET st == last.store
        id == IF last.req.otpId # Null THEN last.req.otpId ELSE last.rec
    IN IF id = Null \/ ~InStore(st, id) THEN "NotFound"
       ELSE IF now > Entry(st, id).expiresAt THEN "Expired"
       ELSE IF Entry(st, id).verified THEN "AlreadyConsumed"
       ELSE IF Entry(st, id).otp # last.req.otp THEN "CodeMismatch"
       ELSE "Verified"

\* C2: a verify-otp request that carries a code gets the first error, in the
\* order existence, expiry, already-consumed, code mismatch, whose condition
\* holds, and succeeds only when none holds.
C2_CheckOrder ==
    (last.op = "verify" /\ last.req.otp # Missing) => last.result = C2_Expected

\* An expired, already verified record queried with a wrong code: Expired.
C2_Witness ==
    /\ last.op = "verify"
    /\ last.req.otp # Missing
    /\ last.rec # Null
    /\ Entry(last.store, last.rec).verified
    /\ Entry(last.store, last.rec).otp # last.req.otp
    /\ last.result = "Expired"

\* C3 (as amended): a verify-otp request that names an issued record by
\* otpId strictly after its expiresAt returns Expired while the record is
\* still stored and NotFound once the deferred deletion or a sweep removed it,
\* whether the code is correct or not.
C3_ExpiredOrGone ==
    (VerifyById /\ now > issued[last.req.otpId].expiresAt) =>
        last.result = IF InStore(last.store, last.req.otpId) THEN "Expired" ELSE "NotFound"

\* C3 as stated: after expiresAt the answer is Expired whatever timers or
\* sweeps have run.
C3_ExpiredRegardless ==
    (VerifyById /\ now > issued[last.req.otpId].expiresAt) => last.result = "Expired"

\* The correct code after expiry, the record still stored: Expired.
C3_Witness ==
    /\ VerifyById
    /\ now > issued[last.req.otpId].expiresAt
    /\ last.req.otp = issued[last.req.otpId].otp
    /\ last.result = "Expired"

\* C4: the store holds exactly one record per sendMessage that resolved: a
\* send-otp request whose delivery failed, or that was rejected before
\* delivery, adds none.
C4_StoredIffDelivered ==
    /\ Len(otpStorage) = nDelivered
    /\ \A j, k \in 1..Len(otpStorage) : otpStorage[j].id = otpStorage[k].id => j = k
    /\ (last.op = "send" /\ last.result = "Sent") => InStore(otpStorage, last.id)
    /\ (last.op = "send" /\ last.result = "DeliveryFailed") => ~InStore(otpStorage, last.id)

\* One delivery succeeded and one failed: one record.
C4_Witness ==
    /\ last.op = "send"
    /\ last.result = "DeliveryFailed"
    /\ nDelivered = 1
    /\ Len(otpStorage) = 1

\* C5: a send-otp request (with a phone number) that arrives while the
\* connection is not Ready is answered NotConnected; no delivery is pending
\* or answered for a request that arrived while it was not Ready.
C5_NotReadyRejected ==
    /\ (last.op = "send" /\ last.before # "Ready" /\ last.result # "MissingPhone")
          => last.result = "NotConnected"
    /\ \A p \in pendingSends : p.before = "Ready"

\* Rejected while a Client exists that is not connected yet.
C5_Witness ==
    /\ last.op = "send"
    /\ last.before \in {"Initializing", "AwaitingPairing"}
    /\ last.result = "NotConnected"
    /\ pendingSends = {}
    /\ otpStorage = <<>>

\* The last response answers a queued request with the code of the record
\* it names, handled before that record's expiresAt.
RacedCorrect ==
    /\ VerifyById
    /\ last.req.otp = issued[last.req.otpId].otp
    /\ now < issued[last.req.otpId].expiresAt

\* C6: of the verify-otp requests queued together for one otpId with the
\* correct code and handled before expiry, one succeeds and every other one
\* gets AlreadyConsumed, whatever the order of the handlers, timers and sweeps.
C6_OneWinner ==
    /\ \A i \in OtpIds : okCount[i] <= 1
    /\ RacedCorrect => last.result \in {"Verified", "AlreadyConsumed"}
    /\ (RacedCorrect /\ last.raced) => last.result = "AlreadyConsumed"
    /\ (RacedCorrect /\ last.result = "AlreadyConsumed") => okCount[last.req.otpId] = 1

\* A request that was queued while another one won gets AlreadyConsumed.
C6_Witness ==
    /\ RacedCorrect
    /\ last.raced
    /\ last.result = "AlreadyConsumed"
    /\ okCount[last.req.otpId] = 1

\* C7: a connect request constructs a Client exactly when it finds the
\* connection Idle (no Client held, not connected); one that finds it
\* Initializing, AwaitingPairing or Ready constructs none.
C7_BootstrapOnlyFromIdle ==
    (last.op = "connect" /\ last.result \in {"Waiting", "AlreadyConnected"}) =>
        ((Cardinality(Born) > last.born) <=> (last.before = "Idle"))

\* Two connect requests wait on one Client that is still initializing.
C7_Witness ==
    /\ last.op = "connect"
    /\ last.result = "Waiting"
    /\ last.before = "Initializing"
    /\ connReqs.polling = 2
    /\ Cardinality(Born) = 1

\* C8 as stated: a pairing challenge is held only while a Client is held and
\* not connected, and connected is never true without a Client.
C8_FlagsMatchState ==
    /\ currentQR # Null => (whatsappClient # Null /\ ~whatsappConnected)
    /\ whatsappConnected => whatsappClient # Null

\* C9 as stated: once the handlers dropped the Client, the globals stay
\* not connected and without a Client until a connect request is handled.
C9_NoRecoveryWithoutConnect ==
    [][(whatsappClient = Null /\ ~whatsappConnected /\ ~(last'.op = "connect" /\ last'.result = "Waiting"))
         => (whatsappClient' = Null /\ ~whatsappConnected')]_vars

\* The last response answers a verify-otp request by phone number.
VerifyByPhone ==
    /\ last.op = "verify"
    /\ last.req.otpId = Null
    /\ last.req.phoneNumber # Missing
    /\ last.req.otp # Missing

\* Positions of the stored, non-consumed records of an address; those among
\* them that are not expired at t; the ones of K created last.
Pending(st, ph) == {k \in 1..Len(st) : st[k].phoneNumber = ph /\ ~st[k].verified}
PendingLive(st, ph, t) == {k \in Pending(st, ph) : ~(st[k].expiresAt < t)}
Latest(st, K) == {k \in K : \A j \in K : st[j].createdAt <= st[k].createdAt}

\* C10 (as amended): verification by address resolves to a record with the
\* maximum createdAt among the stored non-consumed records of that address,
\* expired or not, and to nothing when there is none.
C10_LatestPending ==
    VerifyByPhone =>
        LET K == Pending(last.store, last.req.phoneNumber)
        IN IF K = {} THEN last.rec = Null
           ELSE last.rec \in {last.store[k].id : k \in Latest(last.store, K)}

\* C10 as stated: the candidates are the non-consumed and non-expired records.
C10_LatestPendingLive ==
    VerifyByPhone =>
        LET K == PendingLive(last.store, last.req.phoneNumber, now)
        IN IF K = {} THEN last.rec = Null
           ELSE last.rec \in {last.store[k].id : k \in Latest(last.store, K)}

\* Two pending records of one address created at different times and a
\* verified one: the lookup resolves to the later pending one.
C10_Witness ==
    /\ VerifyByPhone
    /\ \E j, k \in Pending(last.store, last.req.phoneNumber) :
         /\ last.store[j].createdAt < last.store[k].createdAt
         /\ last.rec = last.store[k].id

\* Positions of the stored, non-consumed records whose phone number
\* normalizes to the address ph normalizes to.
PendingSameAddress(st, ph) ==
    {k \in 1..Len(st) : formatPhoneNumber(st[k].phoneNumber) = formatPhoneNumber(ph) /\ ~st[k].verified}

\* C11 as stated: verification by address finds the pending record of an
\* address under every spelling of the phone number that normalizes to the
\* address the record was issued for.
C11_FoundByAnySpelling ==
    VerifyByPhone =>
        LET K == PendingSameAddress(last.store, last.req.phoneNumber)
        IN K # {} => last.rec \in {last.store[k].id : k \in K}

\* Normalization as C12 describes it: strip the non-digits, prefix the
\* country code when exactly ten digits remain, append the suffix.
C12_Normalized(ph) ==
    LET digits == SelectSeq(ph, IsDigit)
    IN (IF Len(digits) = LocalDigits THEN CountryCode \o digits ELSE digits) \o Suffix

\* C12 as stated: the address handed to the transport is the phone number
\* with every non-digit stripped, the country code prepended whenever
\* exactly ten digits remain, and the suffix appended.
C12_PrefixEveryTenDigits ==
    \A p \in pendingSends : p.to = C12_Normalized(p.phoneNumber)

\* C13 as stated: a connect request that finds the connection Ready is
\* answered at once, and every other one has its response by the time its
\* 30-second timeout has run: from the poll, or else the timeout error.
C13_AnsweredByCeiling ==
    last.op = "connect" =>
        /\ last.result = "Waiting" => last.before # "Ready"
        /\ last.result # "Unanswered"

\* A stored record is well formed.
C14_WellFormed(r) ==
    /\ r.expiresAt > r.createdAt
    /\ r.verified => r.verifiedAt # Null

\* A step leaves every verified record as it is, or removes it.
C14_VerifiedFrozen ==
    \A k \in 1..Len(otpStorage) :
        otpStorage[k].verified =>
            \A j \in 1..Len(otpStorage') :
                otpStorage'[j].id = otpStorage[k].id => otpStorage'[j] = otpStorage[k]

\* C14: every stored record has expiresAt > createdAt and, when verified, a
\* verifiedAt; and no step changes a field of a record that is verified,
\* whatever requests follow.
C14_RecordInvariants ==
    /\ [](\A k \in 1..Len(otpStorage) : C14_WellFormed(otpStorage[k]))
    /\ [][C14_VerifiedFrozen]_vars

\* A request with the right code reaches a record verified at an earlier
\* time, and the record is still stored as it was.
C14_Witness ==
    /\ last.op = "verify"
    /\ last.rec # Null
    /\ last.req.otp = Entry(last.store, last.rec).otp
    /\ Entry(last.store, last.rec).verified
    /\ Entry(last.store, last.rec).verifiedAt < now
    /\ InStore(otpStorage, last.rec)
    /\ Entry(otpStorage, last.rec) = Entry(last.store, last.rec)

\* The response to a request that names record r by id with r's code,
\* handled at time t on store st.
LookupById(st, r, t) ==
    VerifyOutcome(st, Resolve(st, [otpId |-> r.id, otp |-> r.otp, phoneNumber |-> Missing]), r.otp, t)

\* What C15 says of one run of the cleanup at time now.
C15_SweepEffect ==
    /\ \A k \in 1..Len(otpStorage') : ~(otpStorage'[k].expiresAt < now)
    /\ \A k \in 1..Len(otpStorage) :
          IF otpStorage[k].expiresAt < now
          THEN /\ ~InStore(otpStorage', otpStorage[k].id)
               /\ LookupById(otpStorage', otpStorage[k], now) = "NotFound"
          ELSE \E j \in 1..Len(otpStorage') : otpStorage'[j] = otpStorage[k]
    /\ Len(otpStorage') <= Len(otpStorage)

\* C15: a run of the periodic cleanup at time now removes every record with
\* expiresAt < now and only those: afterwards no stored record has
\* expiresAt < now, a lookup of a removed id yields NotFound, and every
\* record with expiresAt >= now is still stored, unchanged.
C15_SweepRemovesExactlyExpired == [][Sweep => C15_SweepEffect]_vars

\* The cleanup removed an expired record (its deletion timer is still
\* armed) and kept one that expires at this very instant.
C15_Witness ==
    /\ \E t \in timers :
          /\ ~InStore(otpStorage, t.id)
          /\ issued[t.id].expiresAt < now
    /\ \E k \in 1..Len(otpStorage) : otpStorage[k].expiresAt = now

\* C16 as stated: when the latest stored, non-consumed records of the
\* address share one createdAt, verification by address resolves to the one
\* the scan meets last, that is the one inserted last.
C16_LastOfTiesWins ==
    VerifyByPhone =>
        LET L == Latest(last.store, Pending(last.store, last.req.phoneNumber))
        IN Cardinality(L) >= 2 =>
             last.rec = last.store[CHOOSE k \in L : \A j \in L : j <= k].id

\* C17 as stated: a record that was issued is stored at every time
\* now <= expiresAt, the times at which verify-otp does not report Expired:
\* neither its deletion timer nor the cleanup has removed it, and a lookup by
\* its id does not return NotFound.
C17_NoRemovalWhileValid ==
    /\ \A i \in OtpIds :
          (issued[i].id # Null /\ now <= issued[i].expiresAt) => InStore(otpStorage, i)
    /\ (VerifyById /\ now <= issued[last.req.otpId].expiresAt) => last.result # "NotFound"

\* C18 as stated: no callback of a connect request sends a response when
\* the request already has one, whatever the order of the poll, the timeout
\* and the transport events.
C18_AtMostOneResponse ==
    last.op = "connect" => last.responses <= 1

\* The Client objects the transport still runs.
C19_Live == {s \in SessionIds : clients[s] \in {"init", "pairing", "ready"}}

\* Client s emits one of the four events.
C19_Emits(s) == OnQr(s) \/ OnReady(s) \/ OnAuthFailure(s) \/ OnDisconnected(s)

\* C19 as stated: at most one Client is live at a time, and an event of a
\* Client that the handlers dropped leaves the Client object, the connected
\* flag and the qr of the Client a later connect constructed as they are.
C19_OnlyCurrentSession ==
    /\ [](Cardinality(C19_Live) <= 1)
    /\ [][\A s \in SessionIds :
             (whatsappClient # Null /\ s # whatsappClient /\ C19_Emits(s))
                => UNCHANGED <<whatsappClient, whatsappConnected, currentQR>>]_vars

\* C20: a verify-otp request that is answered with an error (missing code,
\* NotFound, Expired, AlreadyConsumed, CodeMismatch) leaves the store as the
\* handler found it; after a wrong code the record still accepts its code.
C20_ErrorLeavesStore ==
    (last.op = "verify" /\ last.result # "Verified") =>
        /\ otpStorage = last.store
        /\ last.result = "CodeMismatch" =>
              LookupById(otpStorage, Entry(last.store, last.rec), now) = "Verified"

\* A wrong code was rejected before expiry; the record is stored, not
\* verified, next to another record.
C20_Witness ==
    /\ last.op = "verify"
    /\ last.result = "CodeMismatch"
    /\ Len(otpStorage) = 2
    /\ InStore(otpStorage, last.rec)
    /\ ~Entry(otpStorage, last.rec).verified
    /\ now < Entry(otpStorage, last.rec).expiresAt
====
